---- MODULE Spec2Model ----
(***************************************************************************)
(* A model of audiobook_gen.py: the command-line script that asks an LLM   *)
(* for the next chapter of a book, parses the tagged response, persists    *)
(* the progress record, writes the chapter text, narrates it with a TTS    *)
(* service and optionally concatenates the narration clips.                *)
(*                                                                         *)
(* Python strings are sequences of one-character strings.  The files of    *)
(* one book are modelled: progress/<book_id>.json, the chapter text files  *)
(* and the chapter audio files.                                            *)
(***************************************************************************)
EXTENDS Integers, Sequences, FiniteSets, TLC

\* Bounds of the model.
MaxChapters == 3
MaxRuns == 3
MaxN == 2
MaxTokens == 5

VARIABLES
    progressFile,   \* progress/<book_id>.json: <<>> when absent, <<record>> when present
    textFiles,      \* chapters/<book_id>_chapter_<n>.md: chapter number -> content
    audioFiles,     \* chapters/<book_id>_chapter_<n>.wav: chapter number -> times written
    concatFile,     \* the --concat-audio output: the chapters spliced, in order
    pc,             \* position of main: "idle" between runs
    args,           \* the parsed command line of the current run
    progress,       \* main's local `progress`
    prompt,         \* generate_chapter's local `prompt` (the fields it interpolates)
    response,       \* new_chapter's local `response`
    sections,       \* new_chapter's local `sections`
    stepProgress,   \* new_chapter's local `progress`
    chapter_content,\* new_chapter's local `chapter_content`
    checkpoint,     \* new_chapter's local `checkpoint` (an optional string)
    iter,           \* iterations of main's for loop started so far
    regenTodo,      \* regen_missing_audio: the chapter files not yet visited
    stepTrace,      \* history: the calls made by the current chapter step, in order
    runCalls,       \* history: LLM calls made by the current run
    reported,       \* history: a chapter step of the current run returned None
    startedDone,    \* history: the progress file said DONE when the run loaded it
    outcome,        \* history: "running", "ok" or "aborted" (uncaught exception)
    concatRan,      \* history: concat_audio_files was called in the current run
    regenLog,       \* history: chapters narrated by regen_missing_audio, in order
    regenStartAudio,\* history: audioFiles when regen_missing_audio was called
    llmLog,         \* history: the LLM responses whose chapter step persisted progress
    textWrites,     \* history: chapter number -> times its text file was written
    runs            \* history: runs of main started so far

vars == <<progressFile, textFiles, audioFiles, concatFile, pc, args, progress,
          prompt, response, sections, stepProgress, chapter_content, checkpoint, iter,
          regenTodo, stepTrace, runCalls, reported, startedDone, outcome,
          concatRan, regenLog, regenStartAudio, llmLog, textWrites, runs>>

----------------------------------------------------------------------------
\* Characters and strings.

LowerLetters == {"a","b","c","d","e","f","g","h","i","j","k","l","m",
                 "n","o","p","q","r","s","t","u","v","w","x","y","z"}

ToLower == [A |-> "a", B |-> "b", C |-> "c", D |-> "d", E |-> "e", F |-> "f",
            G |-> "g", H |-> "h", I |-> "i", J |-> "j", K |-> "k", L |-> "l",
            M |-> "m", N |-> "n", O |-> "o", P |-> "p", Q |-> "q", R |-> "r",
            S |-> "s", T |-> "t", U |-> "u", V |-> "v", W |-> "w", X |-> "x",
            Y |-> "y", Z |-> "z"]

UpperLetters == DOMAIN ToLower

DigitChars == <<"0","1","2","3","4","5","6","7","8","9">>

\* The regular expression class \w.
IsWord(c) ==
    \/ c \in LowerLetters
    \/ c \in UpperLetters
    \/ c \in {DigitChars[i] : i \in 1..10}
    \/ c = "_"

\* The regular expression class \s, and the characters str.strip() removes.
IsSpace(c) == c \in {" ", "\n", "\t", "\r"}

LowerChar(c) == IF c \in UpperLetters THEN ToLower[c] ELSE c

\* str.lower()
LowerSeq(s) == [i \in 1..Len(s) |-> LowerChar(s[i])]

RECURSIVE LStripFrom(_, _)
LStripFrom(s, i) ==
    IF i <= Len(s) /\ IsSpace(s[i]) THEN LStripFrom(s, i + 1) ELSE i

RECURSIVE RStripTo(_, _)
RStripTo(s, j) ==
    IF j >= 1 /\ IsSpace(s[j]) THEN RStripTo(s, j - 1) ELSE j

\* str.strip()
Strip(s) == SubSeq(s, LStripFrom(s, 1), RStripTo(s, Len(s)))

\* sub == s[i : i + len(sub)]
OccursAt(sub, s, i) ==
    /\ i + Len(sub) - 1 <= Len(s)
    /\ \A k \in 1..Len(sub) : s[i + k - 1] = sub[k]

\* `sub in s`
Contains(sub, s) == \E i \in 1..(Len(s) + 1) : OccursAt(sub, s, i)

RECURSIVE RemoveFrom(_, _, _)
RemoveFrom(sub, s, i) ==
    IF i > Len(s) THEN <<>>
    ELSE IF OccursAt(sub, s, i) THEN RemoveFrom(sub, s, i + Len(sub))
    ELSE <<s[i]>> \o RemoveFrom(sub, s, i + 1)

\* s.replace(sub, "") for a non-empty sub
Remove(sub, s) == RemoveFrom(sub, s, 1)

RECURSIVE IntToStr(_)
\* str(n) for n >= 0, as the f-strings format a chapter number
IntToStr(n) ==
    IF n < 10 THEN <<DigitChars[n + 1]>>
    ELSE IntToStr(n \div 10) \o <<DigitChars[(n % 10) + 1]>>

S_chapter == <<"c", "h", "a", "p", "t", "e", "r">>
S_checkpoint == <<"c", "h", "e", "c", "k", "p", "o", "i", "n", "t">>
S_last_checkpoint == <<"l", "a", "s", "t", " ", "c", "h", "e", "c", "k", "p", "o", "i", "n", "t">>
S_summary == <<"s", "u", "m", "m", "a", "r", "y">>
S_summaries == <<"s", "u", "m", "m", "a", "r", "i", "e", "s">>
S_DONE == <<"D", "O", "N", "E">>
S_the_end == <<"<", "t", "h", "e", " ", "e", "n", "d", ">">>
S_NA == <<"N", "/", "A">>
S_start == <<"T", "h", "i", "s", " ", "i", "s", " ", "t", "h", "e", " ", "s", "t", "a", "r", "t", " ", "o", "f", " ", "t", "h", "e", " ", "s", "t", "o", "r", "y", ".">>

\* f"\n### Chapter {chapter_number} Summary:\n"
SummaryHeader(n) ==
    <<"\n", "#", "#", "#", " ", "C", "h", "a", "p", "t", "e", "r", " ">>
    \o IntToStr(n)
    \o <<" ", "S", "u", "m", "m", "a", "r", "y", ":", "\n">>

----------------------------------------------------------------------------
\* Python dicts with string keys, and optional values (None).

EmptyDict == [k \in {} |-> <<>>]

Put(d, k, v) == [x \in (DOMAIN d) \cup {k} |-> IF x = k THEN v ELSE d[x]]

None == [some |-> FALSE, val |-> <<>>]

Some(v) == [some |-> TRUE, val |-> v]

\* d.get(k)
Get(d, k) == IF k \in DOMAIN d THEN Some(d[k]) ELSE None

\* d.get(k, "")
GetOrEmpty(d, k) == IF k \in DOMAIN d THEN d[k] ELSE <<>>

\* bool(x) for an optional string
Truthy(o) == o.some /\ o.val # <<>>

\* a or b
PyOr(a, b) == IF Truthy(a) THEN a ELSE b

----------------------------------------------------------------------------
\* extract_sections: re.finditer of
\*   (?i)\[(\w+)\]\s*(.*?)(?=\n*\[\w+\]|$)      with re.DOTALL

RECURSIVE WordRunEnd(_, _)
\* \w+ is greedy: the first index from i on that holds no word character
WordRunEnd(s, i) ==
    IF i <= Len(s) /\ IsWord(s[i]) THEN WordRunEnd(s, i + 1) ELSE i

RECURSIVE NewlineRunEnd(_, _)
\* \n* is greedy: the first index from i on that holds no newline
NewlineRunEnd(s, i) ==
    IF i <= Len(s) /\ s[i] = "\n" THEN NewlineRunEnd(s, i + 1) ELSE i

\* \[(\w+)\] at index i: the index of its "]" or 0 when it does not match there
TagClose(s, i) ==
    IF i > Len(s) \/ i < 1 THEN 0
    ELSE IF s[i] # "[" THEN 0
    ELSE LET j == WordRunEnd(s, i + 1)
         IN  IF j > i + 1 /\ j <= Len(s) /\ s[j] = "]" THEN j ELSE 0

\* $ without re.MULTILINE: the end of the string, or just before a final newline
AtDollar(s, e) == e = Len(s) + 1 \/ (e = Len(s) /\ s[e] = "\n")

\* the lookahead (?=\n*\[\w+\]|$) at index e
Lookahead(s, e) == TagClose(s, NewlineRunEnd(s, e)) # 0 \/ AtDollar(s, e)

RECURSIVE ContentEnd(_, _)
\* (.*?) is lazy: the first index from k on where the lookahead succeeds
ContentEnd(s, k) == IF Lookahead(s, k) THEN k ELSE ContentEnd(s, k + 1)

\* the tag as written, its letter case kept
TagName_CaseKept(raw) == Strip(raw)

\* match.group(1).strip().lower()
TagName(raw) == LowerSeq(Strip(raw))

\* match.group(2).strip()
TagContent(raw) == Strip(raw)

\* The match of the pattern that starts at the tag at index i.
MatchAt(s, i) ==
    LET j == TagClose(s, i)
        k == LStripFrom(s, j + 1)          \* \s* is greedy
        e == ContentEnd(s, k)
    IN  [group1 |-> SubSeq(s, i + 1, j - 1),
         group2 |-> SubSeq(s, k, e - 1),
         end    |-> e]

RECURSIVE FindIter(_, _, _)
\* the loop over re.finditer: the leftmost match from pos on, then on from its end
FindIter(s, pos, acc) ==
    IF pos > Len(s) THEN acc
    ELSE IF TagClose(s, pos) = 0 THEN FindIter(s, pos + 1, acc)
    ELSE LET m == MatchAt(s, pos)
         IN  FindIter(s, m.end, Put(acc, TagName(m.group1), TagContent(m.group2)))

extract_sections(resp) == FindIter(resp, 1, EmptyDict)

----------------------------------------------------------------------------
\* The progress record and the files.

\* the dict load_progress returns when there is no progress file
DefaultProgress ==
    [last_chapter |-> S_NA, checkpoint |-> S_start,
     chapter_number |-> 0, summaries |-> <<>>]

\* load_progress: the record of the progress file (json.load gives back the
\* strings and the integer json.dump wrote), with chapter_number filled in from
\* the count of chapter text files when an older file lacks it.
load_progress(file, texts) ==
    IF file # <<>>
    THEN LET p == file[1]
         IN  IF "chapter_number" \in DOMAIN p THEN p
             ELSE [k \in (DOMAIN p) \cup {"chapter_number"} |->
                      IF k = "chapter_number"
                      THEN Cardinality(DOMAIN texts) ELSE p[k]]
    ELSE DefaultProgress

\* save_progress: the file holds the record, whatever it held before
save_progress(p) == <<p>>

RECURSIVE SortedSeq(_)
\* sorted(..., key=chapter number)
SortedSeq(S) ==
    IF S = {} THEN <<>>
    ELSE LET m == CHOOSE x \in S : \A y \in S : x <= y
         IN  <<m>> \o SortedSeq(S \ {m})

\* a file written once more (its content replaced)
Written(files, ch) ==
    Put(files, ch, IF ch \in DOMAIN files THEN files[ch] + 1 ELSE 1)

----------------------------------------------------------------------------
\* generate_chapter and new_chapter: what they compute.

\* the fields generate_chapter interpolates into the prompt
PromptOf(p) ==
    [checkpoint |-> p.checkpoint,
     summaries  |-> IF p.summaries = <<>> THEN S_NA ELSE p.summaries,
     chapter    |-> p.chapter_number + 1]

\* sections.get("chapter", "")
StepChapter(secs) == GetOrEmpty(secs, S_chapter)

\* sections.get("checkpoint") or sections.get("last checkpoint")
StepCheckpoint(secs) == PyOr(Get(secs, S_checkpoint), Get(secs, S_last_checkpoint))

\* sections.get("summary") or sections.get("summaries", "")
StepSummary(secs) ==
    LET a == Get(secs, S_summary)
    IN  IF Truthy(a) THEN a.val ELSE GetOrEmpty(secs, S_summaries)

\* the chapter number not advanced
NextChapterNumber_Same(last) == last.chapter_number

\* last_progress.get("chapter_number", 0) + 1
NextChapterNumber(last) == last.chapter_number + 1

\* (last summaries + header + summary).strip()
NewSummaries(last, n, summary) ==
    Strip(last.summaries \o SummaryHeader(n) \o summary)

\* the marker looked for in the response as written
HasEndMarker_CaseSensitive(resp) == Contains(S_the_end, resp)

\* "<the end>" in response.lower()
HasEndMarker(resp) == Contains(S_the_end, LowerSeq(resp))

\* the condition of the `if` that ends the story
StoryComplete(resp, ckpt) == HasEndMarker(resp) \/ ~Truthy(ckpt)

\* new_chapter from the chapter number to save_progress: the record it
\* persists, the chapter content it goes on with and its local `checkpoint`.
BuildProgress(last, resp, secs) ==
    LET content == StepChapter(secs)
        ckpt    == StepCheckpoint(secs)
        n       == NextChapterNumber(last)
        sums    == NewSummaries(last, n, StepSummary(secs))
    IN  IF StoryComplete(resp, ckpt)
        THEN LET c == Remove(S_the_end, content)
             IN  [progress |-> [last_chapter |-> c, checkpoint |-> S_DONE,
                                chapter_number |-> n, summaries |-> sums],
                  chapter_content |-> c,
                  checkpoint |-> None]
        ELSE [progress |-> [last_chapter |-> content, checkpoint |-> ckpt.val,
                            chapter_number |-> n, summaries |-> sums],
              chapter_content |-> content,
              checkpoint |-> ckpt]

\* the DONE checkpoint not recognised
IsComplete_Never(p) == FALSE

\* main: progress["checkpoint"] == "DONE"
IsComplete(p) == p.checkpoint = S_DONE

\* a loop that runs once too often
LoopContinues_OneMore(i, n) == i <= n

\* main: for _ in range(args.num_chapters), with i iterations started
LoopContinues(i, n) == i < n

\* --skip-audio ignored
AudioWanted_Always(skip_audio) == TRUE

\* new_chapter: if not skip_audio
AudioWanted(skip_audio) == ~skip_audio

\* the existence of the audio file not looked at
AudioMissing_Always(ch, audio) == TRUE

\* regen_missing_audio: if not audio_file.exists()
AudioMissing(ch, audio) == ch \notin DOMAIN audio

----------------------------------------------------------------------------
\* The LLM's possible responses.

R_next == <<"[", "c", "h", "a", "p", "t", "e", "r", "]", "\n", "x", "\n", "[", "s", "u", "m", "m", "a", "r", "y", "]", "\n", "s", "\n", "[", "c", "h", "e", "c", "k", "p", "o", "i", "n", "t", "]", "\n", "k">>
R_end == <<"[", "C", "h", "a", "p", "t", "e", "r", "]", "y", " ", "<", "T", "H", "E", " ", "E", "N", "D", ">", "\n", "[", "c", "h", "e", "c", "k", "p", "o", "i", "n", "t", "]", "k">>
R_last == <<"[", "c", "h", "a", "p", "t", "e", "r", "]", "z", "<", "t", "h", "e", " ", "e", "n", "d", ">", "\n", "[", "s", "u", "m", "m", "a", "r", "y", "]", "s">>
R_nochapter == <<"[", "s", "u", "m", "m", "a", "r", "y", "]", "s", "[", "c", "h", "e", "c", "k", "p", "o", "i", "n", "t", "]", "k">>
R_done == <<"[", "c", "h", "a", "p", "t", "e", "r", "]", "x", "[", "c", "h", "e", "c", "k", "p", "o", "i", "n", "t", "]", "D", "O", "N", "E">>
R_empty == <<"[", "c", "h", "a", "p", "t", "e", "r", "]", "w", "[", "l", "a", "s", "t", " ", "c", "h", "e", "c", "k", "p", "o", "i", "n", "t", "]", "k", "[", "c", "h", "e", "c", "k", "p", "o", "i", "n", "t", "]", "\n">>

Responses == {R_next, R_end, R_last, R_nochapter, R_done, R_empty}

----------------------------------------------------------------------------
\* The state after installation: no progress file, no chapter files, no run.

NoArgs == [n |-> 0, skip_audio |-> FALSE, regen_audio |-> FALSE, concat_audio |-> FALSE]

Init ==
    /\ progressFile = <<>>
    /\ textFiles = EmptyDict
    /\ audioFiles = EmptyDict
    /\ concatFile = <<>>
    /\ pc = "idle"
    /\ args = NoArgs
    /\ progress = DefaultProgress
    /\ prompt = PromptOf(DefaultProgress)
    /\ response = <<>>
    /\ sections = EmptyDict
    /\ stepProgress = DefaultProgress
    /\ chapter_content = <<>>
    /\ checkpoint = None
    /\ iter = 0
    /\ regenTodo = <<>>
    /\ stepTrace = <<>>
    /\ runCalls = 0
    /\ reported = FALSE
    /\ startedDone = FALSE
    /\ outcome = "ok"
    /\ concatRan = FALSE
    /\ regenLog = <<>>
    /\ regenStartAudio = EmptyDict
    /\ llmLog = <<>>
    /\ textWrites = EmptyDict
    /\ runs = 0

disk == <<progressFile, textFiles, audioFiles, concatFile>>
stepLocals == <<prompt, response, sections, stepProgress, chapter_content, checkpoint>>
runHistory == <<runCalls, reported, startedDone, concatRan, regenLog, regenStartAudio, runs>>

\* An uncaught exception ends the run where it is.
Abort ==
    /\ pc' = "idle"
    /\ outcome' = "aborted"

----------------------------------------------------------------------------
\* main, up to the loop.

\* main: parse the command line, load the spec and the progress of the book.
StartRun(n, skip, regen, concat) ==
    /\ pc = "idle"
    /\ runs < MaxRuns
    /\ load_progress(progressFile, textFiles).chapter_number + n <= MaxChapters
    /\ args' = [n |-> n, skip_audio |-> skip, regen_audio |-> regen, concat_audio |-> concat]
    /\ progress' = load_progress(progressFile, textFiles)
    /\ pc' = IF regen THEN "regen_start" ELSE "check_done"
    /\ iter' = 0
    /\ regenTodo' = <<>>
    /\ stepTrace' = <<>>
    /\ runCalls' = 0
    /\ reported' = FALSE
    /\ startedDone' = (progressFile # <<>> /\ progressFile[1].checkpoint = S_DONE)
    /\ outcome' = "running"
    /\ concatRan' = FALSE
    /\ regenLog' = <<>>
    /\ regenStartAudio' = EmptyDict
    /\ runs' = runs + 1
    /\ UNCHANGED <<disk, stepLocals, llmLog, textWrites>>

\* regen_missing_audio: list the chapter text files, sorted by chapter number.
RegenStart ==
    /\ pc = "regen_start"
    /\ regenTodo' = SortedSeq(DOMAIN textFiles)
    /\ regenStartAudio' = audioFiles
    /\ pc' = "regen"
    /\ UNCHANGED <<disk, args, progress, stepLocals, iter, stepTrace, runCalls,
                   reported, startedDone, outcome, concatRan, regenLog, llmLog,
                   textWrites, runs>>

\* regen_missing_audio: the chapter's audio file exists, nothing to do.
RegenSkip ==
    /\ pc = "regen"
    /\ regenTodo # <<>>
    /\ ~AudioMissing(Head(regenTodo), audioFiles)
    /\ regenTodo' = Tail(regenTodo)
    /\ UNCHANGED <<disk, pc, args, progress, stepLocals, iter, stepTrace, runCalls,
                   reported, startedDone, outcome, concatRan, regenLog,
                   regenStartAudio, llmLog, textWrites, runs>>

\* regen_missing_audio: the audio file is missing, generate_audio writes it.
RegenNarrate ==
    /\ pc = "regen"
    /\ regenTodo # <<>>
    /\ AudioMissing(Head(regenTodo), audioFiles)
    /\ audioFiles' = Written(audioFiles, Head(regenTodo))
    /\ regenLog' = Append(regenLog, Head(regenTodo))
    /\ regenTodo' = Tail(regenTodo)
    /\ UNCHANGED <<progressFile, textFiles, concatFile, pc, args, progress,
                   stepLocals, iter, stepTrace, runCalls, reported, startedDone,
                   outcome, concatRan, regenStartAudio, llmLog, textWrites, runs>>

\* regen_missing_audio: the TTS call raises.
RegenTtsFails ==
    /\ pc = "regen"
    /\ regenTodo # <<>>
    /\ AudioMissing(Head(regenTodo), audioFiles)
    /\ Abort
    /\ UNCHANGED <<disk, args, progress, stepLocals, iter, regenTodo, stepTrace,
                   runCalls, reported, startedDone, concatRan, regenLog,
                   regenStartAudio, llmLog, textWrites, runs>>

\* regen_missing_audio returns.
RegenReturn ==
    /\ pc = "regen"
    /\ regenTodo = <<>>
    /\ pc' = "check_done"
    /\ UNCHANGED <<disk, args, progress, stepLocals, iter, regenTodo, stepTrace,
                   runCalls, reported, startedDone, outcome, concatRan, regenLog,
                   regenStartAudio, llmLog, textWrites, runs>>

\* main: if progress["checkpoint"] == "DONE" no chapter is generated.
CheckDone ==
    /\ pc = "check_done"
    /\ pc' = IF IsComplete(progress) THEN "concat" ELSE "loop"
    /\ UNCHANGED <<disk, args, progress, stepLocals, iter, regenTodo, stepTrace,
                   runCalls, reported, startedDone, outcome, concatRan, regenLog,
                   regenStartAudio, llmLog, textWrites, runs>>

\* main: the head of `for _ in range(args.num_chapters)`.
LoopHead ==
    /\ pc = "loop"
    /\ IF LoopContinues(iter, args.n)
       THEN pc' = "generate" /\ iter' = iter + 1
       ELSE pc' = "concat" /\ iter' = iter
    /\ UNCHANGED <<disk, args, progress, stepLocals, regenTodo, stepTrace,
                   runCalls, reported, startedDone, outcome, concatRan, regenLog,
                   regenStartAudio, llmLog, textWrites, runs>>

----------------------------------------------------------------------------
\* new_chapter, one action per call it makes.

\* generate_chapter: build the prompt from `progress`, the LLM answers r.
GenerateChapter(r) ==
    /\ pc = "generate"
    /\ prompt' = PromptOf(progress)
    /\ response' = r
    /\ runCalls' = runCalls + 1
    /\ stepTrace' = <<"llm">>
    /\ pc' = "extract"
    /\ UNCHANGED <<disk, args, progress, sections, stepProgress, chapter_content,
                   checkpoint, iter, regenTodo, reported, startedDone, outcome,
                   concatRan, regenLog, regenStartAudio, llmLog, textWrites, runs>>

\* generate_chapter: the LLM call raises.
GenerateChapterFails ==
    /\ pc = "generate"
    /\ prompt' = PromptOf(progress)
    /\ runCalls' = runCalls + 1
    /\ stepTrace' = <<"llm">>
    /\ Abort
    /\ UNCHANGED <<disk, args, progress, response, sections, stepProgress,
                   chapter_content, checkpoint, iter, regenTodo, reported,
                   startedDone, concatRan, regenLog, regenStartAudio, llmLog,
                   textWrites, runs>>

\* new_chapter: extract_sections(response); the chapter section is there.
ExtractSections ==
    /\ pc = "extract"
    /\ StepChapter(extract_sections(response)) # <<>>
    /\ sections' = extract_sections(response)
    /\ stepTrace' = Append(stepTrace, "parse")
    /\ pc' = "persist"
    /\ UNCHANGED <<disk, args, progress, prompt, response, stepProgress,
                   chapter_content, checkpoint, iter, regenTodo, runCalls,
                   reported, startedDone, outcome, concatRan, regenLog,
                   regenStartAudio, llmLog, textWrites, runs>>

\* new_chapter: no chapter content, raise ValueError.
ChapterMissing ==
    /\ pc = "extract"
    /\ StepChapter(extract_sections(response)) = <<>>
    /\ sections' = extract_sections(response)
    /\ stepTrace' = Append(stepTrace, "parse")
    /\ Abort
    /\ UNCHANGED <<disk, args, progress, prompt, response, stepProgress,
                   chapter_content, checkpoint, iter, regenTodo, runCalls,
                   reported, startedDone, concatRan, regenLog, regenStartAudio,
                   llmLog, textWrites, runs>>

\* new_chapter: build the new progress record and save_progress it.
SaveProgress ==
    /\ pc = "persist"
    /\ LET b == BuildProgress(progress, response, sections)
       IN  /\ stepProgress' = b.progress
           /\ chapter_content' = b.chapter_content
           /\ checkpoint' = b.checkpoint
           /\ progressFile' = save_progress(b.progress)
    /\ stepTrace' = Append(stepTrace, "persist")
    /\ llmLog' = Append(llmLog, response)
    /\ pc' = "save_text"
    /\ UNCHANGED <<textFiles, audioFiles, concatFile, args, progress, prompt,
                   response, sections, iter, regenTodo, runCalls, reported,
                   startedDone, outcome, concatRan, regenLog, regenStartAudio,
                   textWrites, runs>>

\* save_chapter_text: write chapters/<book_id>_chapter_<n>.md.
SaveChapterText ==
    /\ pc = "save_text"
    /\ textFiles' = Put(textFiles, stepProgress.chapter_number, chapter_content)
    /\ textWrites' = Written(textWrites, stepProgress.chapter_number)
    /\ stepTrace' = Append(stepTrace, "text")
    /\ pc' = "audio"
    /\ UNCHANGED <<progressFile, audioFiles, concatFile, args, progress,
                   stepLocals, iter, regenTodo, runCalls, reported, startedDone,
                   outcome, concatRan, regenLog, regenStartAudio, llmLog, runs>>

\* generate_audio: the TTS call succeeds and the audio file is written.
GenerateAudio ==
    /\ pc = "audio"
    /\ AudioWanted(args.skip_audio)
    /\ audioFiles' = Written(audioFiles, stepProgress.chapter_number)
    /\ stepTrace' = Append(stepTrace, "tts")
    /\ pc' = "return"
    /\ UNCHANGED <<progressFile, textFiles, concatFile, args, progress,
                   stepLocals, iter, regenTodo, runCalls, reported, startedDone,
                   outcome, concatRan, regenLog, regenStartAudio, llmLog,
                   textWrites, runs>>

\* generate_audio: the TTS call raises.
GenerateAudioFails ==
    /\ pc = "audio"
    /\ AudioWanted(args.skip_audio)
    /\ stepTrace' = Append(stepTrace, "tts")
    /\ Abort
    /\ UNCHANGED <<disk, args, progress, stepLocals, iter, regenTodo, runCalls,
                   reported, startedDone, concatRan, regenLog, regenStartAudio,
                   llmLog, textWrites, runs>>

\* new_chapter: --skip-audio, no TTS call.
SkipAudio ==
    /\ pc = "audio"
    /\ ~AudioWanted(args.skip_audio)
    /\ pc' = "return"
    /\ UNCHANGED <<disk, args, progress, stepLocals, iter, regenTodo, stepTrace,
                   runCalls, reported, startedDone, outcome, concatRan, regenLog,
                   regenStartAudio, llmLog, textWrites, runs>>

\* new_chapter returns None (`not checkpoint`): main breaks out of the loop.
ReturnNone ==
    /\ pc = "return"
    /\ ~Truthy(checkpoint)
    /\ reported' = TRUE
    /\ pc' = "concat"
    /\ UNCHANGED <<disk, args, progress, stepLocals, iter, regenTodo, stepTrace,
                   runCalls, startedDone, outcome, concatRan, regenLog,
                   regenStartAudio, llmLog, textWrites, runs>>

\* new_chapter returns its progress: main keeps it and loops.
ReturnProgress ==
    /\ pc = "return"
    /\ Truthy(checkpoint)
    /\ progress' = stepProgress
    /\ pc' = "loop"
    /\ UNCHANGED <<disk, args, stepLocals, iter, regenTodo, stepTrace, runCalls,
                   reported, startedDone, outcome, concatRan, regenLog,
                   regenStartAudio, llmLog, textWrites, runs>>

----------------------------------------------------------------------------
\* main, after the loop.

\* concat_audio_files: splice the chapter audio files, sorted by chapter number
\* (no output when there is none), and main returns.
ConcatAudio ==
    /\ pc = "concat"
    /\ args.concat_audio
    /\ concatFile' = IF DOMAIN audioFiles = {} THEN concatFile
                     ELSE SortedSeq(DOMAIN audioFiles)
    /\ concatRan' = TRUE
    /\ pc' = "idle"
    /\ outcome' = "ok"
    /\ UNCHANGED <<progressFile, textFiles, audioFiles, args, progress,
                   stepLocals, iter, regenTodo, stepTrace, runCalls, reported,
                   startedDone, regenLog, regenStartAudio, llmLog, textWrites, runs>>

\* main returns without --concat-audio.
Exit ==
    /\ pc = "concat"
    /\ ~args.concat_audio
    /\ pc' = "idle"
    /\ outcome' = "ok"
    /\ UNCHANGED <<disk, args, progress, stepLocals, iter, regenTodo, stepTrace,
                   runCalls, reported, startedDone, concatRan, regenLog,
                   regenStartAudio, llmLog, textWrites, runs>>

Next ==
    \/ \E n \in 0..MaxN, skip \in BOOLEAN, regen \in BOOLEAN, concat \in BOOLEAN :
          StartRun(n, skip, regen, concat)
    \/ RegenStart
    \/ RegenSkip
    \/ RegenNarrate
    \/ RegenTtsFails
    \/ RegenReturn
    \/ CheckDone
    \/ LoopHead
    \/ \E r \in Responses : GenerateChapter(r)
    \/ GenerateChapterFails
    \/ ExtractSections
    \/ ChapterMissing
    \/ SaveProgress
    \/ SaveChapterText
    \/ GenerateAudio
    \/ GenerateAudioFails
    \/ SkipAudio
    \/ ReturnNone
    \/ ReturnProgress
    \/ ConcatAudio
    \/ Exit

Spec == Init /\ [][Next]_vars

----------------------------------------------------------------------------
\* extract_sections on its own: every response built from a few tokens.

ParseTokens ==
    {<<"[", "a", "]">>, <<"[", "A", "]">>, <<"[", "b", "]">>,
     <<"[">>, <<"a">>, <<" ">>, <<"\n">>}

RECURSIVE TokenStrings(_)
TokenStrings(n) ==
    IF n = 0 THEN {<<>>}
    ELSE LET S == TokenStrings(n - 1)
         IN  S \cup {s \o t : s \in S, t \in ParseTokens}

ParseInit ==
    /\ progressFile = <<>>
    /\ textFiles = EmptyDict
    /\ audioFiles = EmptyDict
    /\ concatFile = <<>>
    /\ pc = "parse_input"
    /\ args = NoArgs
    /\ progress = DefaultProgress
    /\ prompt = PromptOf(DefaultProgress)
    /\ response \in TokenStrings(MaxTokens)
    /\ sections = EmptyDict
    /\ stepProgress = DefaultProgress
    /\ chapter_content = <<>>
    /\ checkpoint = None
    /\ iter = 0
    /\ regenTodo = <<>>
    /\ stepTrace = <<>>
    /\ runCalls = 0
    /\ reported = FALSE
    /\ startedDone = FALSE
    /\ outcome = "ok"
    /\ concatRan = FALSE
    /\ regenLog = <<>>
    /\ regenStartAudio = EmptyDict
    /\ llmLog = <<>>
    /\ textWrites = EmptyDict
    /\ runs = 0

\* sections = extract_sections(response)
ParseResponse ==
    /\ pc = "parse_input"
    /\ sections' = extract_sections(response)
    /\ pc' = "parsed"
    /\ UNCHANGED <<disk, args, progress, prompt, response, stepProgress,
                   chapter_content, checkpoint, iter, regenTodo, stepTrace,
                   runCalls, reported, startedDone, outcome, concatRan, regenLog,
                   regenStartAudio, llmLog, textWrites, runs>>

ParseNext == ParseResponse

SpecParse == ParseInit /\ [][ParseNext]_vars

----------------------------------------------------------------------------
\* What the claims about extract_sections speak of.

\* <<i, j>>: a bracketed tag [name] occupies s[i..j]
TagsOf(s) ==
    {t \in (1..Len(s)) \X (1..Len(s)) :
        /\ s[t[1]] = "["
        /\ s[t[2]] = "]"
        /\ t[2] > t[1] + 1
        /\ \A k \in (t[1] + 1)..(t[2] - 1) : IsWord(s[k])}

NameOf(s, t) == SubSeq(s, t[1] + 1, t[2] - 1)

\* the text from just after the tag up to the next tag or the end of the string
TextAfter(s, t) ==
    LET later == {u[1] : u \in {v \in TagsOf(s) : v[1] > t[2]}}
        stop  == IF later = {} THEN Len(s) + 1
                 ELSE CHOOSE x \in later : \A y \in later : x <= y
    IN  SubSeq(s, t[2] + 1, stop - 1)

\* a text without its leading and trailing whitespace
Trimmed(x) ==
    LET solid == {k \in 1..Len(x) : ~IsSpace(x[k])}
    IN  IF solid = {} THEN <<>>
        ELSE SubSeq(x, CHOOSE a \in solid : \A b \in solid : a <= b,
                       CHOOSE a \in solid : \A b \in solid : a >= b)

\* the dict the claim describes
SectionsAsClaimed(s) ==
    /\ DOMAIN sections = {LowerSeq(NameOf(s, t)) : t \in TagsOf(s)}
    /\ \A t \in TagsOf(s) :
          sections[LowerSeq(NameOf(s, t))] = Trimmed(TextAfter(s, t))

DistinctNames(s) ==
    \A t, u \in TagsOf(s) : t # u => NameOf(s, t) # NameOf(s, u)

DistinctLowercasedNames(s) ==
    \A t, u \in TagsOf(s) : t # u => LowerSeq(NameOf(s, t)) # LowerSeq(NameOf(s, u))

\* C3 as stated: for every response whose tags have distinct names,
\* extract_sections maps the lowercased name of each tag to the trimmed text
\* between that tag and the next tag or the end of the string.
C3_AsStated ==
    (pc = "parsed" /\ DistinctNames(response)) => SectionsAsClaimed(response)

\* C3, amended: the same for every response whose tags have names that are
\* distinct once lowercased (two tags that differ only in letter case share a
\* key and the later one wins).
C3_Sections ==
    (pc = "parsed" /\ DistinctLowercasedNames(response)) => SectionsAsClaimed(response)

\* Two tags with distinct names after text that belongs to no section, one of
\* them followed by text that trimming shortens.
C3_Witness ==
    /\ pc = "parsed"
    /\ DistinctLowercasedNames(response)
    /\ Cardinality(TagsOf(response)) = 2
    /\ \A t \in TagsOf(response) : t[1] > 1
    /\ \E t \in TagsOf(response) :
          /\ Trimmed(TextAfter(response, t)) # <<>>
          /\ Trimmed(TextAfter(response, t)) # TextAfter(response, t)
    /\ \E t \in TagsOf(response) : NameOf(response, t) = <<"A">>

----------------------------------------------------------------------------
\* What the claims about the runs of main speak of.

PersistedDone == progressFile # <<>> /\ progressFile[1].checkpoint = S_DONE

\* the chapter_number of the progress file (0 while there is none)
PersistedChapterNumber == load_progress(progressFile, textFiles).chapter_number

IsPrefix(a, b) == Len(a) <= Len(b) /\ SubSeq(b, 1, Len(a)) = a

IsApiCall(e) == e # "text"

\* the calls of the chapter step the claim orders: the text file write left out
StepCalls == SelectSeq(stepTrace, IsApiCall)

\* the end-of-story marker occurs in resp in some letter case
MarkerInAnyCase(resp) ==
    \E i \in 1..Len(resp) :
        /\ i + Len(S_the_end) - 1 <= Len(resp)
        /\ \A k \in 1..Len(S_the_end) : LowerChar(resp[i + k - 1]) = S_the_end[k]

\* the response yields a non-empty [checkpoint] section
HasCheckpointSection(resp) ==
    LET secs == extract_sections(resp)
    IN  S_checkpoint \in DOMAIN secs /\ secs[S_checkpoint] # <<>>

\* C1: a chapter step calls the LLM once, parses, persists the progress and
\* then (unless --skip-audio) calls TTS once, in this order: the progress is
\* never persisted before the parse nor after the TTS call; and once the audio
\* concatenation has run, the run is over (no chapter step follows it).
C1_StepOrder ==
    /\ IsPrefix(StepCalls, <<"llm", "parse", "persist", "tts">>)
    /\ pc \in {"extract", "persist", "save_text", "audio", "return"} => runCalls = iter
    /\ pc \in {"extract", "persist"} => PersistedChapterNumber = progress.chapter_number
    /\ pc = "return" =>
          /\ StepCalls = IF args.skip_audio THEN <<"llm", "parse", "persist">>
                         ELSE <<"llm", "parse", "persist", "tts">>
          /\ IF args.skip_audio
             THEN stepProgress.chapter_number \notin DOMAIN audioFiles
             ELSE /\ stepProgress.chapter_number \in DOMAIN audioFiles
                  /\ audioFiles[stepProgress.chapter_number] = 1
    /\ pc \in {"save_text", "audio", "return"} => progressFile = <<stepProgress>>
    /\ concatRan => (pc = "idle" /\ args.concat_audio)

\* Two chapter steps with audio, then the concatenation.
C1_Witness ==
    /\ pc = "idle"
    /\ concatRan
    /\ iter = 2
    /\ stepTrace = <<"llm", "parse", "persist", "text", "tts">>
    /\ concatFile = <<1, 2>>

C6_Regen ==
    /\ pc = "regen" =>
          \A ch \in DOMAIN regenStartAudio :
              ch \in DOMAIN audioFiles /\ audioFiles[ch] = regenStartAudio[ch]
    /\ (pc = "check_done" /\ args.regen_audio) =>
          /\ DOMAIN textFiles \subseteq DOMAIN audioFiles
          /\ regenLog = SortedSeq(DOMAIN textFiles \ DOMAIN regenStartAudio)
          /\ \A ch \in DOMAIN regenStartAudio :
                ch \in DOMAIN audioFiles /\ audioFiles[ch] = regenStartAudio[ch]
          /\ \A ch \in DOMAIN textFiles \ DOMAIN regenStartAudio : audioFiles[ch] = 1

\* regen_missing_audio returned after narrating two chapters and leaving one.
C6_Witness ==
    /\ pc = "check_done"
    /\ args.regen_audio
    /\ Len(regenLog) = 2
    /\ DOMAIN regenStartAudio # {}

C8_Numbering ==
    /\ pc = "idle" =>
          /\ DOMAIN textFiles = 1..PersistedChapterNumber
          /\ Cardinality(DOMAIN textFiles) = PersistedChapterNumber
    /\ pc = "return" =>
          /\ PersistedChapterNumber = progress.chapter_number + 1
          /\ PersistedChapterNumber \in DOMAIN textFiles
          /\ textFiles[PersistedChapterNumber] = chapter_content
    /\ \A ch \in DOMAIN textWrites : textWrites[ch] = 1

\* A run aborted by a failed TTS call in its second chapter step.
C8_Witness ==
    /\ pc = "idle"
    /\ outcome = "aborted"
    /\ stepTrace = <<"llm", "parse", "persist", "text", "tts">>
    /\ PersistedChapterNumber = 2
    /\ iter = 2

----------------------------------------------------------------------------
\* Successive runs with --num-chapters 1.

\* main with -n 1 on the files d, the LLM answering r with a chapter section
RunOneChapter(d, r) ==
    LET p == load_progress(d.progressFile, d.textFiles)
        b == BuildProgress(p, r, extract_sections(r))
    IN  IF IsComplete(p) THEN d
        ELSE [progressFile |-> save_progress(b.progress),
              textFiles |-> Put(d.textFiles, b.progress.chapter_number, b.chapter_content)]

RECURSIVE RunsOfOne(_, _)
\* one run with -n 1 for each response of log, from the files d
RunsOfOne(d, log) ==
    IF log = <<>> THEN d
    ELSE RunsOfOne(RunOneChapter(d, Head(log)), Tail(log))

\* C4 as stated: every LLM call is prompted from the persisted progress (the
\* default record while there is no progress file), and a first run with -n 2
\* leaves the progress file and the chapter text files that successive runs
\* with -n 1 leave on the same LLM responses.
C4_AsStated ==
    /\ pc = "extract" => prompt = PromptOf(load_progress(progressFile, textFiles))
    /\ (pc = "idle" /\ outcome = "ok" /\ runs = 1 /\ args.n = 2) =>
          [progressFile |-> progressFile, textFiles |-> textFiles]
             = RunsOfOne([progressFile |-> <<>>, textFiles |-> EmptyDict], llmLog)

\* C4, the part that holds: every LLM call is prompted from the persisted
\* progress.
C4_PromptFromDisk ==
    pc = "extract" => prompt = PromptOf(load_progress(progressFile, textFiles))

====
